---- MODULE Spec2Model ----
(***************************************************************************)
(* A model of the Dingz device client (dingz/dingz.py).                    *)
(*                                                                         *)
(* The client is an asyncio object: every method is a coroutine that runs  *)
(* atomically between two awaits.  A refresh call is therefore modelled    *)
(* as a task that issues a request (the code up to "await make_call"),     *)
(* stays in flight, and resumes with the response or with the error that   *)
(* make_call raises.  Several tasks of one client may be in flight at the  *)
(* same time (asyncio.gather on one instance).                             *)
(*                                                                         *)
(* Payloads are opaque to the client, so the value a response carries is   *)
(* identified with the number of the call it answers: two responses carry  *)
(* the same value only if they answer the same call.  The fields a         *)
(* response object has, and the state token of a light response, are       *)
(* chosen freely, since the device decides them.                           *)
(***************************************************************************)
EXTENDS Integers, Sequences, FiniteSets, TLC

\* ----- bounds of the model
MaxCalls == 2      \* number of calls of refresh/LED methods in one behaviour
MaxClose == 2      \* number of invocations of Dingz.close in one behaviour

\* the calls that may be in flight at once: the two calls that overlap
Tasks == {1, 2}
CallIds == 1..MaxCalls

\* ----- endpoint paths (dingz/constants.py)
PUCK == "puck"
DEVICE_INFO == "device"
SETTINGS == "settings"
PIR_CONFIGURATION == "pir_config"
THERMOSTAT_CONFIGURATION == "thermostat_config"
INPUT_CONFIGURATION == "input_config"
BUTTON_ACTIONS == "action"
TEMPERATURE == "temp"
LIGHT == "light"
FRONT_LED_GET == "led/get"
FRONT_LED_SET == "led/set"

Endpoints ==
    { PUCK, DEVICE_INFO, SETTINGS, PIR_CONFIGURATION, THERMOSTAT_CONFIGURATION,
      INPUT_CONFIGURATION, BUTTON_ACTIONS, TEMPERATURE, LIGHT, FRONT_LED_GET,
      FRONT_LED_SET }

\* Python's None for the numeric cached fields, and a key a dict does not hold
None == 0
\* Python's None for the string field _hour_of_day and for the session
NoneStr == "None"

\* the state tokens a light response may carry
StateTokens == {"day", "night", "dusk"}

VARIABLES
    session,        \* self._session: NoneStr, "ext" (supplied) or "own" (created)
    close_session,  \* self._close_session
    device_details, \* self._device_details
    catch_all,      \* self._catch_all: endpoint -> payload, None where no key
    button_action,  \* self._button_action
    temperature,    \* self._temperature
    intensity,      \* self._intensity
    hour_of_day,    \* self._hour_of_day
    tasks,          \* the calls in the task slots
    calls,          \* number of calls started so far
    scope,          \* position of the "async with" block: "out", "in", "done"
    entered,        \* what __aenter__ returned
    lastExc,        \* how the block was left: "none" or "error"
    closeCalls,     \* observer: invocations of Dingz.close
    extCloses,      \* observer: invocations of close() on the supplied session
    ownCloses,      \* observer: invocations of close() on the created session
    obs,            \* observer: per slot, the mapping at call start, overlap, in
                    \* block, and the last response delivered to the call
    lastOk,         \* observer: value of the last successful call per field
    respState       \* observer: state token carried by the response to a call

cache == <<device_details, catch_all, button_action, temperature, intensity, hour_of_day>>
sess == <<session, close_session>>
closes == <<closeCalls, extCloses, ownCloses>>
block == <<scope, entered, lastExc>>
ghost == <<obs, lastOk, respState>>
vars == <<cache, sess, tasks, calls, block, closes, ghost>>

\* ----- values

Methods ==
    { "get_device_info", "get_info", "get_temperature", "get_button_action",
      "get_light", "enabled", "turn_on", "turn_off" }

Req(method, endpoint, data) == [method |-> method, endpoint |-> endpoint, data |-> data]

IdleTask ==
    [op |-> "idle", status |-> "idle", id |-> 0, idx |-> 0, reqs |-> <<>>,
     error |-> "none", ret |-> NoneStr]

NoResponse == [ok |-> FALSE, fields |-> {"none"}, state |-> NoneStr, on |-> FALSE]

IdleObs ==
    [pre |-> [e \in Endpoints |-> None], alone |-> TRUE, inblock |-> FALSE,
     resp |-> NoResponse]

\* Dingz.__init__: the session is the one supplied, or None; nothing is cached
Init ==
    /\ session \in {NoneStr, "ext"}
    /\ close_session = FALSE
    /\ device_details = None
    /\ catch_all = [e \in Endpoints |-> None]
    /\ button_action = None
    /\ temperature = None
    /\ intensity = None
    /\ hour_of_day = NoneStr
    /\ tasks = [t \in Tasks |-> IdleTask]
    /\ calls = 0
    /\ scope = "out"
    /\ entered = NoneStr
    /\ lastExc = "none"
    /\ closeCalls = 0
    /\ extCloses = 0
    /\ ownCloses = 0
    /\ obs = [t \in Tasks |-> IdleObs]
    /\ lastOk = [device_details |-> None, button_action |-> None, temperature |-> None,
                 intensity |-> None, hour_of_day |-> NoneStr]
    /\ respState = [c \in CallIds |-> NoneStr]

\* ----- the shared call helper, make_call of dingz/__init__.py, after its contract

\* make_call, before the request: a client without a session creates one and owns it
make_call ==
    /\ session' = IF session = NoneStr THEN "own" ELSE session
    /\ close_session' = IF session = NoneStr THEN TRUE ELSE close_session

\* make_call, after the request: a response object, or the transport error.
\* The fields of the object are the device's choice.
FailedResponse == [ok |-> FALSE, fields |-> {}, state |-> NoneStr, on |-> FALSE]

Responses(op) ==
    {FailedResponse} \cup
    CASE op = "get_temperature" ->
           {[ok |-> TRUE, fields |-> f, state |-> NoneStr, on |-> FALSE] :
               f \in SUBSET {"temperature"}}
      [] op = "get_light" ->
           {[ok |-> TRUE, fields |-> {"intensity", "state"}, state |-> s, on |-> FALSE] :
               s \in StateTokens}
           \cup {[ok |-> TRUE, fields |-> f, state |-> NoneStr, on |-> FALSE] :
                    f \in SUBSET {"intensity"}}
      [] op = "enabled" ->
           {[ok |-> TRUE, fields |-> {"on"}, state |-> NoneStr, on |-> b] : b \in BOOLEAN}
           \cup {[ok |-> TRUE, fields |-> {}, state |-> NoneStr, on |-> FALSE]}
      [] OTHER ->
           {[ok |-> TRUE, fields |-> {}, state |-> NoneStr, on |-> FALSE]}

\* ----- how a coroutine ends

\* the coroutine returns
Return(t, ret) ==
    tasks' = [tasks EXCEPT ![t].status = "ok", ![t].ret = ret, ![t].idx = @ + 1]

\* the coroutine ends with an exception: the one make_call raised ("transport"),
\* or the KeyError of a subscript on a response without the field ("key")
Raise(t, e) ==
    tasks' = [tasks EXCEPT ![t].status = "err", ![t].error = e]

\* ----- the requests of the methods (the code up to "await make_call")

get_device_info_call == Req("GET", DEVICE_INFO, NoneStr)

\* a loop that leaves one endpoint out
InfoEndpoints_mut ==
    << PUCK, DEVICE_INFO, PIR_CONFIGURATION, THERMOSTAT_CONFIGURATION,
       INPUT_CONFIGURATION, BUTTON_ACTIONS >>

\* the endpoints get_info walks through, in order
InfoEndpoints ==
    << PUCK, DEVICE_INFO, SETTINGS, PIR_CONFIGURATION, THERMOSTAT_CONFIGURATION,
       INPUT_CONFIGURATION, BUTTON_ACTIONS >>

get_info_call(k) == Req("GET", InfoEndpoints[k], NoneStr)

get_temperature_call == Req("GET", TEMPERATURE, NoneStr)

get_button_action_call == Req("GET", BUTTON_ACTIONS, NoneStr)

get_light_call == Req("GET", LIGHT, NoneStr)

enabled_call == Req("GET", FRONT_LED_GET, NoneStr)

turn_on_call == Req("POST", FRONT_LED_SET, "on")

\* turn_off sending the body of turn_on
turn_off_call_mut == Req("POST", FRONT_LED_SET, "on")

turn_off_call == Req("POST", FRONT_LED_SET, "off")

FirstRequest(op) ==
    CASE op = "get_device_info" -> get_device_info_call
      [] op = "get_info" -> get_info_call(1)
      [] op = "get_temperature" -> get_temperature_call
      [] op = "get_button_action" -> get_button_action_call
      [] op = "get_light" -> get_light_call
      [] op = "enabled" -> enabled_call
      [] op = "turn_on" -> turn_on_call
      [] op = "turn_off" -> turn_off_call

\* ----- the methods after "await make_call": r is what make_call produced

get_device_info(t, r) ==
    /\ UNCHANGED sess
    /\ IF ~r.ok
       THEN Raise(t, "transport") /\ UNCHANGED cache
       ELSE /\ device_details' = tasks[t].id
            /\ UNCHANGED <<catch_all, button_action, temperature, intensity, hour_of_day>>
            /\ Return(t, NoneStr)

\* one turn of the loop: the response to request k arrived
get_info(t, r) ==
    LET k == tasks[t].idx + 1 IN
    IF ~r.ok
    THEN Raise(t, "transport") /\ UNCHANGED cache /\ UNCHANGED sess
    ELSE /\ catch_all' = [catch_all EXCEPT ![InfoEndpoints[k]] = tasks[t].id]
         /\ UNCHANGED <<device_details, button_action, temperature, intensity, hour_of_day>>
         /\ IF k < Len(InfoEndpoints)
            THEN /\ make_call
                 /\ tasks' = [tasks EXCEPT ![t].idx = k,
                                           ![t].reqs = Append(@, get_info_call(k + 1))]
            ELSE /\ UNCHANGED sess
                 /\ Return(t, NoneStr)

\* get_temperature dropping the cached value when the request fails
get_temperature_mut(t, r) ==
    /\ UNCHANGED sess
    /\ IF ~r.ok
       THEN /\ Raise(t, "transport")
            /\ temperature' = None
            /\ UNCHANGED <<device_details, catch_all, button_action, intensity, hour_of_day>>
       ELSE IF "temperature" \notin r.fields
       THEN Raise(t, "key") /\ UNCHANGED cache
       ELSE /\ temperature' = tasks[t].id
            /\ UNCHANGED <<device_details, catch_all, button_action, intensity, hour_of_day>>
            /\ Return(t, NoneStr)

get_temperature(t, r) ==
    /\ UNCHANGED sess
    /\ IF ~r.ok
       THEN Raise(t, "transport") /\ UNCHANGED cache
       ELSE IF "temperature" \notin r.fields
       THEN Raise(t, "key") /\ UNCHANGED cache
       ELSE /\ temperature' = tasks[t].id
            /\ UNCHANGED <<device_details, catch_all, button_action, intensity, hour_of_day>>
            /\ Return(t, NoneStr)

get_button_action(t, r) ==
    /\ UNCHANGED sess
    /\ IF ~r.ok
       THEN Raise(t, "transport") /\ UNCHANGED cache
       ELSE /\ button_action' = tasks[t].id
            /\ UNCHANGED <<device_details, catch_all, temperature, intensity, hour_of_day>>
            /\ Return(t, NoneStr)

\* the two assignments run without an await between them; the second subscript
\* is evaluated after the first assignment has been made (the print of the
\* response before them writes to standard output only)
get_light(t, r) ==
    /\ UNCHANGED sess
    /\ IF ~r.ok
       THEN Raise(t, "transport") /\ UNCHANGED cache
       ELSE IF "intensity" \notin r.fields
       THEN Raise(t, "key") /\ UNCHANGED cache
       ELSE /\ intensity' = tasks[t].id
            /\ UNCHANGED <<device_details, catch_all, button_action, temperature>>
            /\ IF "state" \notin r.fields
               THEN Raise(t, "key") /\ UNCHANGED hour_of_day
               ELSE hour_of_day' = r.state /\ Return(t, NoneStr)

enabled(t, r) ==
    /\ UNCHANGED sess
    /\ UNCHANGED cache
    /\ IF ~r.ok
       THEN Raise(t, "transport")
       ELSE IF "on" \notin r.fields
       THEN Raise(t, "key")
       ELSE Return(t, IF r.on THEN "True" ELSE "False")

turn_on(t, r) ==
    /\ UNCHANGED sess
    /\ UNCHANGED cache
    /\ IF ~r.ok THEN Raise(t, "transport") ELSE Return(t, NoneStr)

turn_off(t, r) ==
    /\ UNCHANGED sess
    /\ UNCHANGED cache
    /\ IF ~r.ok THEN Raise(t, "transport") ELSE Return(t, NoneStr)

\* ----- accessors

everything == catch_all

\* day taking everything but "night" for day
day_mut == IF hour_of_day # "night" THEN TRUE ELSE FALSE

day == IF hour_of_day = "day" THEN TRUE ELSE FALSE

night == IF hour_of_day = "night" THEN TRUE ELSE FALSE

\* ----- closing

\* close without the ownership flag
close_mut ==
    /\ closeCalls' = closeCalls + 1
    /\ IF session # NoneStr
       THEN /\ extCloses' = IF session = "ext" THEN extCloses + 1 ELSE extCloses
            /\ ownCloses' = IF session = "own" THEN ownCloses + 1 ELSE ownCloses
       ELSE UNCHANGED <<extCloses, ownCloses>>
    /\ UNCHANGED sess

\* Dingz.close
close ==
    /\ closeCalls' = closeCalls + 1
    /\ IF session # NoneStr /\ close_session
       THEN /\ extCloses' = IF session = "ext" THEN extCloses + 1 ELSE extCloses
            /\ ownCloses' = IF session = "own" THEN ownCloses + 1 ELSE ownCloses
       ELSE UNCHANGED <<extCloses, ownCloses>>
    /\ UNCHANGED sess

aenter == entered' = "self"

\* __aexit__ closing only when the block ended without an error
aexit_mut(exc) ==
    IF exc = "none" THEN close ELSE UNCHANGED closes /\ UNCHANGED sess

aexit(exc) == close

\* ----- actions

\* the slot a new call takes: the first one that holds no call in flight
FreeSlot(t) ==
    /\ tasks[t].status # "waiting"
    /\ \A u \in Tasks : u < t => tasks[u].status = "waiting"

\* a caller starts a method: the method runs up to its first await
Start(t, op) ==
    /\ calls < MaxCalls
    /\ FreeSlot(t)
    /\ calls' = calls + 1
    /\ make_call
    /\ tasks' = [tasks EXCEPT ![t] =
                    [op |-> op, status |-> "waiting", id |-> calls + 1, idx |-> 0,
                     reqs |-> <<FirstRequest(op)>>, error |-> "none", ret |-> NoneStr]]
    /\ obs' = [u \in Tasks |->
                 IF u = t
                 THEN [pre |-> catch_all,
                       alone |-> \A v \in Tasks \ {t} : tasks[v].status # "waiting",
                       inblock |-> scope = "in",
                       resp |-> NoResponse]
                 ELSE IF tasks[u].status = "waiting"
                      THEN [obs[u] EXCEPT !.alone = FALSE]
                      ELSE obs[u]]
    /\ UNCHANGED <<cache, block, closes, lastOk, respState>>

Resume(t, r) ==
    \/ tasks[t].op = "get_device_info" /\ get_device_info(t, r)
    \/ tasks[t].op = "get_info" /\ get_info(t, r)
    \/ tasks[t].op = "get_temperature" /\ get_temperature(t, r)
    \/ tasks[t].op = "get_button_action" /\ get_button_action(t, r)
    \/ tasks[t].op = "get_light" /\ get_light(t, r)
    \/ tasks[t].op = "enabled" /\ enabled(t, r)
    \/ tasks[t].op = "turn_on" /\ turn_on(t, r)
    \/ tasks[t].op = "turn_off" /\ turn_off(t, r)

\* what the observer records when the response r reaches task t
Observe(t, r) ==
    LET op == tasks[t].op
        id == tasks[t].id
        good == tasks'[t].status = "ok"
    IN /\ obs' = [obs EXCEPT ![t].resp = r]
       /\ respState' = [respState EXCEPT ![id] =
                           IF op = "get_light" /\ r.ok /\ "state" \in r.fields
                           THEN r.state ELSE NoneStr]
       /\ lastOk' =
            IF ~good THEN lastOk
            ELSE CASE op = "get_device_info" -> [lastOk EXCEPT !.device_details = id]
                   [] op = "get_button_action" -> [lastOk EXCEPT !.button_action = id]
                   [] op = "get_temperature" -> [lastOk EXCEPT !.temperature = id]
                   [] op = "get_light" ->
                        [lastOk EXCEPT !.intensity = id, !.hour_of_day = r.state]
                   [] OTHER -> lastOk

\* the response to the request in flight arrives and the method runs on
Respond(t, r) ==
    /\ tasks[t].status = "waiting"
    /\ r \in Responses(tasks[t].op)
    /\ Resume(t, r)
    /\ Observe(t, r)
    /\ UNCHANGED <<calls, block, closes>>

Close ==
    /\ closeCalls < MaxClose
    /\ close
    /\ UNCHANGED <<cache, tasks, calls, block, ghost>>

AEnter ==
    /\ scope # "in"
    /\ aenter
    /\ scope' = "in"
    /\ lastExc' = "none"
    /\ obs' = [u \in Tasks |-> [obs[u] EXCEPT !.inblock = FALSE]]
    /\ UNCHANGED <<cache, sess, tasks, calls, closes, lastOk, respState>>

\* the block ends, normally or with the error a call inside it raised
AExit(exc) ==
    /\ scope = "in"
    /\ closeCalls < MaxClose
    /\ exc = "error" => \E t \in Tasks : tasks[t].status = "err" /\ obs[t].inblock
    /\ aexit(exc)
    /\ scope' = "done"
    /\ lastExc' = exc
    /\ UNCHANGED <<entered, cache, tasks, calls, ghost>>

\* the calls a caller makes while the lifetime of the session is followed
SessionMethods == {"get_device_info", "get_temperature", "turn_on", "turn_off"}

NextRefresh ==
    \/ \E t \in Tasks, op \in Methods : Start(t, op)
    \/ \E t \in Tasks : \E r \in Responses(tasks[t].op) : Respond(t, r)

NextSession ==
    \/ \E t \in Tasks, op \in SessionMethods : Start(t, op)
    \/ \E t \in Tasks : \E r \in Responses(tasks[t].op) : Respond(t, r)
    \/ Close
    \/ AEnter
    \/ \E exc \in {"none", "error"} : AExit(exc)

\* the refresh and LED methods of one client, with calls that may overlap
SpecRefresh == Init /\ [][NextRefresh]_vars

\* the same client with close and the "async with" block
SpecSession == Init /\ [][NextSession]_vars

\* ----- the properties

\* the seven endpoints get_info is documented to query, in the documented order
SevenEndpoints ==
    << "puck", "device", "settings", "pir_config", "thermostat_config",
       "input_config", "action" >>

SevenKeys == {SevenEndpoints[i] : i \in 1..Len(SevenEndpoints)}

Keys(d) == {e \in DOMAIN d : d[e] # None}

\* task t takes a step
Steps(t) == tasks'[t] # tasks[t]

\* task t takes the step in which a response reaches it
Resumes(t) == tasks[t].status = "waiting" /\ Steps(t)

\* t is the call started last, and no other call was in flight during it
Undisturbed(t) == obs[t].alone /\ calls = tasks[t].id

\* C1: a get_temperature call whose request fails ends with the transport error,
\* and neither its start nor its failure changes the cached temperature, whatever
\* was cached before (a value fetched earlier, or nothing).
C1_FailedTemperatureKeepsCache ==
    [][\A t \in Tasks :
          /\ (Steps(t) /\ tasks'[t].op = "get_temperature" /\ tasks'[t].status = "waiting")
                => temperature' = temperature
          /\ (Resumes(t) /\ tasks[t].op = "get_temperature" /\ ~obs'[t].resp.ok)
                => /\ temperature' = temperature
                   /\ tasks'[t].status = "err"
                   /\ tasks'[t].error = "transport"]_vars

\* C1 witness: a get_temperature call has failed on its request while a value
\* fetched by an earlier call is cached.
C1_Witness ==
    \E t \in Tasks :
        /\ tasks[t].op = "get_temperature"
        /\ tasks[t].status = "err"
        /\ tasks[t].error = "transport"
        /\ ~obs[t].resp.ok
        /\ temperature # None
        /\ temperature < tasks[t].id

\* C2: a get_info call issues its requests one per endpoint in the documented
\* order, each only after the previous one was answered; a successful call has
\* issued exactly seven, the mapping then holds exactly the seven keys, and a call
\* that ran undisturbed has overwritten the value of every key.
C2_GetInfoSevenSequential ==
    \A t \in Tasks :
        tasks[t].op = "get_info" =>
            /\ Len(tasks[t].reqs) <= Len(SevenEndpoints)
            /\ \A i \in 1..Len(tasks[t].reqs) :
                  tasks[t].reqs[i] = [method |-> "GET", endpoint |-> SevenEndpoints[i],
                                      data |-> NoneStr]
            /\ tasks[t].status \in {"waiting", "err"} => Len(tasks[t].reqs) = tasks[t].idx + 1
            /\ tasks[t].status = "ok" =>
                  /\ Len(tasks[t].reqs) = 7
                  /\ tasks[t].idx = 7
                  /\ Keys(everything) = SevenKeys
                  /\ Cardinality(Keys(everything)) = 7
                  /\ Undisturbed(t) => \A e \in SevenKeys : everything[e] = tasks[t].id

\* C2 witness: a second get_info call has succeeded on a mapping that an earlier
\* call had filled.
C2_Witness ==
    \E t \in Tasks :
        /\ tasks[t].op = "get_info"
        /\ tasks[t].status = "ok"
        /\ tasks[t].id = 2
        /\ Keys(obs[t].pre) = SevenKeys
        /\ \A e \in SevenKeys : obs[t].pre[e] = 1 /\ everything[e] = 2

\* C3: the session the caller supplied is never closed, whatever is called on
\* the client, and the client never comes to own it.
C3_ExternalSessionNeverClosed ==
    /\ extCloses = 0
    /\ session = "ext" => ~close_session

\* C3 witness: a client with a supplied session, with calls made, close invoked
\* directly and by the end of the block.
C3_Witness ==
    /\ session = "ext"
    /\ closeCalls = 2
    /\ scope = "done"
    /\ \E t \in Tasks : tasks[t].status \in {"ok", "err"}

\* C4: the session the client created is closed at most once, however often
\* close is invoked.
C4_OwnSessionClosedOnce == ownCloses <= 1

\* C5: a turn_on or turn_off call issues exactly one request, a POST to the
\* front-LED-set endpoint with action on respectively off, and no step of such a
\* call changes a cached field, whether the request succeeds or fails.
C5_LedCallOneRequestNoCacheChange ==
    [][\A t \in Tasks :
          /\ tasks'[t].op = "turn_on" =>
                tasks'[t].reqs = <<[method |-> "POST", endpoint |-> "led/set", data |-> "on"]>>
          /\ tasks'[t].op = "turn_off" =>
                tasks'[t].reqs = <<[method |-> "POST", endpoint |-> "led/set", data |-> "off"]>>
          /\ (Steps(t) /\ tasks'[t].op \in {"turn_on", "turn_off"}) => cache' = cache]_vars

\* C5 witness: a turn_off call has failed while a light reading is cached.
C5_Witness ==
    \E t \in Tasks :
        /\ tasks[t].op = "turn_off"
        /\ tasks[t].status = "err"
        /\ intensity # None
        /\ hour_of_day # NoneStr

\* C6: a get_info call that fails, undisturbed by other calls, leaves the mapping
\* as it was when the call started.
C6_FailedGetInfoKeepsMapping ==
    \A t \in Tasks :
        (tasks[t].op = "get_info" /\ tasks[t].status = "err" /\ Undisturbed(t))
            => everything = obs[t].pre

\* C7: entering the block returns the client and performs no request; leaving it,
\* normally or with an error, invokes close exactly once, which closes the session
\* once if the client created it and never the supplied one.
C7_BlockExitClosesOnce ==
    [][/\ (scope # "in" /\ scope' = "in") =>
             /\ entered' = "self"
             /\ tasks' = tasks
             /\ sess' = sess
             /\ closes' = closes
       /\ (scope = "in" /\ scope' # "in") =>
             /\ closeCalls' = closeCalls + 1
             /\ extCloses' = extCloses
             /\ ownCloses' = ownCloses + (IF session = "own" THEN 1 ELSE 0)]_vars

\* C7 witness: the block was left with the error of a call made inside it, and
\* the session the client created was closed.
C7_Witness ==
    /\ scope = "done"
    /\ lastExc = "error"
    /\ closeCalls = 1
    /\ ownCloses = 1
    /\ \E t \in Tasks : tasks[t].status = "err" /\ obs[t].inblock

\* the cached fields each method is documented to update
Updates(op) ==
    CASE op = "get_device_info" -> {"device_details"}
      [] op = "get_info" -> {"everything"}
      [] op = "get_temperature" -> {"temperature"}
      [] op = "get_button_action" -> {"button_action"}
      [] op = "get_light" -> {"intensity", "hour_of_day"}
      [] OTHER -> {}

\* C8: every cached field is unset while its refresh method has not succeeded and
\* holds the value of the most recent successful call of it afterwards, and a step
\* of a call changes only the fields its method is documented to update.
C8_CacheHoldsLastSuccess ==
    /\ [](/\ device_details = lastOk.device_details
          /\ button_action = lastOk.button_action
          /\ temperature = lastOk.temperature
          /\ intensity = lastOk.intensity
          /\ hour_of_day = lastOk.hour_of_day)
    /\ [][\A t \in Tasks : Resumes(t) =>
             /\ "device_details" \notin Updates(tasks[t].op) => device_details' = device_details
             /\ "everything" \notin Updates(tasks[t].op) => catch_all' = catch_all
             /\ "temperature" \notin Updates(tasks[t].op) => temperature' = temperature
             /\ "button_action" \notin Updates(tasks[t].op) => button_action' = button_action
             /\ "intensity" \notin Updates(tasks[t].op) => intensity' = intensity
             /\ "hour_of_day" \notin Updates(tasks[t].op) => hour_of_day' = hour_of_day]_vars

\* C9: day and night are never both true; day is true exactly when the state
\* token of the most recent successful get_light is "day", night exactly when it
\* is "night"; both are false before any successful get_light and for any other
\* token.
C9_DayNightFromLastLight ==
    /\ ~(day /\ night)
    /\ day = (lastOk.hour_of_day = "day")
    /\ night = (lastOk.hour_of_day = "night")
    /\ lastOk.hour_of_day \notin {"day", "night"} => ~day /\ ~night

\* C9 witness: night after a successful get_light, with a later get_light failed.
C9_Witness ==
    /\ night
    /\ ~day
    /\ \E t \in Tasks : tasks[t].op = "get_light" /\ tasks[t].status = "err"

\* C10: a cached field changes only in a step in which a response reaches a call;
\* when two overlapping calls of one method have both succeeded, the field holds
\* the value of the response that arrived last; and the cached intensity and
\* state token are those of one and the same response.
C10_WrittenOnArrival ==
    [][cache' # cache => \E t \in Tasks : Resumes(t) /\ obs'[t].resp.ok]_vars

C10_LastArrivalWins ==
    \A t, u \in Tasks :
        (t # u /\ tasks[t].status = "ok" /\ tasks[u].status = "ok"
              /\ tasks[t].op = tasks[u].op /\ ~obs[t].alone /\ ~obs[u].alone) =>
            /\ tasks[t].op = "get_temperature" =>
                  temperature = lastOk.temperature /\ temperature \in {tasks[t].id, tasks[u].id}
            /\ tasks[t].op = "get_light" =>
                  intensity = lastOk.intensity /\ intensity \in {tasks[t].id, tasks[u].id}

C10_LightFromOneResponse ==
    \/ intensity = None /\ hour_of_day = NoneStr
    \/ intensity # None /\ hour_of_day = respState[intensity]

C10_OverlappingRefreshes ==
    /\ C10_WrittenOnArrival
    /\ [](C10_LastArrivalWins /\ C10_LightFromOneResponse)

====
